---- MODULE Spec2Model ----
(***************************************************************************)
(* boilersync: pull / init over a small directory tree, the manifest       *)
(* marker file (.boilersync), the interpolation context, the variable      *)
(* collector and the upward search for the marker.                         *)
(***************************************************************************)
EXTENDS Integers, Sequences, FiniteSets, TLC

\* ------------------------------------------------------------------ bounds
\* Depth of the directory tree the marker is searched in and child paths are
\* drawn from.
MaxDepth == 2
\* Number of command invocations (processes) in one behaviour.
MaxRuns == 2

\* ------------------------------------------------------------- optionals
\* Python's None / a present value, as a sequence of length 0 / 1.
None == <<>>
Some(x) == <<x>>
IsNone(o) == o = <<>>
Val(o) == o[1]

\* ------------------------------------------------------------ directories
\* A directory is the sequence of its path components; <<>> is "/".
TopName == "My-App"
ChildNames == {"existing", "childdir"}
SeqsUpTo(S, n) == UNION {[1..k -> S] : k \in 0..n}
RootDir == <<>>
TopDir == <<TopName>>
\* the tree the commands are run in: /, /My-App and its two subdirectories
Dirs == {RootDir, TopDir} \cup {TopDir \o <<c>> : c \in ChildNames}
\* diff's project_temp_dir: <tempdir>/boilersync-diff-<hash>/project
TmpDir == <<"tmp", "project">>
\* the tree the marker is searched in
SearchDirs == {RootDir} \cup {TopDir \o s : s \in SeqsUpTo(ChildNames, MaxDepth - 1)}
\* pathlib: Path("/").parent == Path("/")
Parent(d) == IF d = <<>> THEN d ELSE SubSeq(d, 1, Len(d) - 1)
\* pathlib: Path.name, "" for the filesystem root
DirName(d) == IF d = <<>> THEN "" ELSE d[Len(d)]
Subdirs(d) == {e \in Dirs : e # d /\ Parent(e) = d}
IsPrefix(p, d) == Len(p) <= Len(d) /\ SubSeq(d, 1, Len(p)) = p
\* target_dir.relative_to(parent_dir)
RelPath(d, p) == SubSeq(d, Len(p) + 1, Len(d))

\* ------------------------------------------------------------------ names
\* A name is the sequence of its characters.
Chars(n) ==
  CASE n = "My-App" -> <<"M", "y", "-", "A", "p", "p">>
    [] n = "existing" -> <<"e", "x", "i", "s", "t", "i", "n", "g">>
    [] n = "childdir" -> <<"c", "h", "i", "l", "d", "d", "i", "r">>
    [] n = "project" -> <<"p", "r", "o", "j", "e", "c", "t">>
    [] OTHER -> <<>>
Lower(c) ==
  CASE c = "M" -> "m" [] c = "A" -> "a" [] c = "E" -> "e" [] c = "C" -> "c" [] c = "P" -> "p"
    [] OTHER -> c
Upper(c) ==
  CASE c = "m" -> "M" [] c = "a" -> "A" [] c = "e" -> "E" [] c = "c" -> "C" [] c = "p" -> "P"
    [] OTHER -> c
IsAlnum(c) ==
  c \in {"a", "c", "d", "e", "g", "h", "i", "j", "l", "m", "n", "o", "p", "r", "s", "t", "x", "y", "2"}

\* lowercases, and replaces each run of non-alphanumerics by one underscore
RECURSIVE Squash(_)
Squash(s) ==
  IF s = <<>> THEN <<>>
  ELSE LET c == Lower(Head(s))
           rest == Squash(Tail(s))
       IN IF IsAlnum(c) THEN <<c>> \o rest
          ELSE IF rest # <<>> /\ Head(rest) = "_" THEN rest
          ELSE <<"_">> \o rest
StripUnderscores(s) ==
  LET a == IF s # <<>> /\ Head(s) = "_" THEN Tail(s) ELSE s
  IN IF a # <<>> /\ a[Len(a)] = "_" THEN SubSeq(a, 1, Len(a) - 1) ELSE a
\* <<>> stands for the InvalidNameError of an empty result
normalize_to_snake(raw) == StripUnderscores(Squash(raw))
\* splits on underscore, title-cases each segment, joins with spaces
snake_to_pretty(id) ==
  [i \in 1..Len(id) |->
     IF id[i] = "_" THEN " "
     ELSE IF i = 1 \/ id[i - 1] = "_" THEN Upper(id[i])
     ELSE Lower(id[i])]

\* what the operator may type at the two name prompts instead of the default
CustomSnake == <<"a", "p", "i">>
CustomPretty == <<"A", "p", "i", " ", "2">>
\* the answers to the two prompts: both defaults accepted, or both typed
NameAnswers(default_snake, default_pretty) ==
  {<<default_snake, default_pretty>>, <<CustomSnake, CustomPretty>>}

\* -------------------------------------------------------------- templates
\* The directories under paths.boilerplate_dir, and a name that is none.
Templates == {"hello", "lib"}
TemplateNames == Templates \cup {"ghost"}
BuiltIns == {"project_name_snake", "project_name_pretty"}
\* ascending lexical order of the token names, as sorted() yields it
TokenOrder == <<"author", "project_name_pretty", "project_name_snake", "year">>
Tokens == {TokenOrder[i] : i \in 1..Len(TokenOrder)}
\* what the operator types at a variable prompt
Values == {"Ada"}
DSStore == ".DS_Store"
TemplateFiles(t) ==
  CASE t = "hello" -> {"README.md", "app.cfg"}
    [] t = "lib" -> {"LICENSE"}
    [] OTHER -> {}
\* extract_variables_from_template_content of each file's text
FileTokens(f) ==
  CASE f = "README.md" -> {"project_name_pretty", "author"}
    [] f = "app.cfg" -> {"project_name_snake", "author"}
    [] f = "LICENSE" -> {"author", "year"}
    [] OTHER -> {}
Sorted(S) == SelectSeq(TokenOrder, LAMBDA k : k \in S)
Range(s) == {s[i] : i \in 1..Len(s)}

\* ---------------------------------------------------------- manifest file
\* The marker file on disk: the keys written so far and whether the JSON
\* object has been closed.
KeyOrder == <<"template", "name_snake", "name_pretty", "variables">>
Absent == [exists |-> FALSE, data |-> <<>>, closed |-> FALSE]
Restrict(f, S) == [k \in S |-> f[k]]
FileOf(data) == [exists |-> TRUE, data |-> data, closed |-> TRUE]
\* the file as a crash leaves it after n keys reached the disk
Truncated(data, n) ==
  [exists |-> TRUE, data |-> Restrict(data, {KeyOrder[i] : i \in 1..n}), closed |-> FALSE]
\* json.load succeeds
Loadable(file) == file.exists /\ file.closed
\* data.get("children", [])
ChildrenOf(file) ==
  IF Loadable(file) /\ "children" \in DOMAIN file.data THEN file.data["children"] ELSE <<>>

VARIABLES manifest, tree, pc, args, loc, ctx, prompts, runs, before
vars == <<manifest, tree, pc, args, loc, ctx, prompts, runs, before>>

\* ------------------------------------------------- interpolation context
EmptyCtx == [names |-> None, variables |-> <<>>]
set_project_names(c, snake, pretty) == [c EXCEPT !.names = Some(<<snake, pretty>>)]
set_collected_variables(c, m) ==
  [c EXCEPT !.variables = [k \in DOMAIN m \cup DOMAIN c.variables |->
                             IF k \in DOMAIN m THEN m[k] ELSE c.variables[k]]]
set_collected_variable(c, k, v) ==
  [c EXCEPT !.variables = [j \in DOMAIN c.variables \cup {k} |->
                             IF j = k THEN v ELSE c.variables[j]]]
has_variable(c, k) ==
  \/ k \in BuiltIns /\ ~IsNone(c.names)
  \/ k \in DOMAIN c.variables
get_collected_variables(c) == c.variables
Resolve(c, k) ==
  IF k = "project_name_snake" THEN Val(c.names)[1]
  ELSE IF k = "project_name_pretty" THEN Val(c.names)[2]
  ELSE c.variables[k]

\* ------------------------------------------------------ variable collector
\* the tokens collect_missing_variables prompts for
\* (mutant) no has_variable check before prompting
MissingVariables_All(c, tokens) == tokens
MissingVariables(c, tokens) == {k \in tokens : ~has_variable(c, k)}
\* the context after every missing token was answered (ans: token -> value)
RECURSIVE SetAll(_, _, _)
SetAll(c, keys, ans) ==
  IF keys = <<>> THEN c
  ELSE SetAll(set_collected_variable(c, Head(keys), ans[Head(keys)]), Tail(keys), ans)
collect_missing_variables(c, tokens, ans) == SetAll(c, Sorted(MissingVariables(c, tokens)), ans)

\* --------------------------------------------------------------- git state
GitStates == {"norepo", "clean", "dirty"}
\* (mutant) the dirty check is lost
is_git_repo_clean_Always(g) == TRUE
is_git_repo_clean(g) == g # "dirty"

\* ------------------------------------------------------------- filesystem
\* any(p for p in target_dir.iterdir() if p.name != ".DS_Store")
HasFilesIn(m, t, d) ==
  \/ DOMAIN t[d] \ {DSStore} # {}
  \/ m[d].exists
  \/ Subdirs(d) # {}
HasFiles(d) == HasFilesIn(manifest, tree, d)
\* the text file the processor writes for template file f
Render(c, f) == [k \in FileTokens(f) |-> Resolve(c, k)]
WriteFile(t, f, content) ==
  [n \in DOMAIN t \cup {f} |-> IF n = f THEN content ELSE t[n]]

\* nearest strict ancestor holding the marker, or None
RECURSIVE find_parent_from(_)
find_parent_from(d) ==
  IF manifest[d].exists THEN Some(d)
  ELSE IF Parent(d) = d THEN None
  ELSE find_parent_from(Parent(d))
find_parent_boilersync(d) == IF Parent(d) = d THEN None ELSE find_parent_from(Parent(d))

\* the parent's manifest file after the child path was registered
\* (mutant) appends without looking for the path
add_child_to_parent_Append(file, child) ==
  FileOf([k \in DOMAIN file.data \cup {"children"} |->
            IF k = "children" THEN Append(ChildrenOf(file), child) ELSE file.data[k]])
add_child_to_parent(file, child) ==
  LET L == ChildrenOf(file)
      L2 == IF child \in Range(L) THEN L ELSE Append(L, child)
  IN FileOf([k \in DOMAIN file.data \cup {"children"} |->
               IF k = "children" THEN L2 ELSE file.data[k]])

\* ------------------------------------------------------------------- state
\* the Python type of what each parameter of init / pull is bound to, when it
\* is not None
Annotated ==
  [target_dir |-> "Path", project_name |-> "str", pretty_name |-> "str",
   collected_variables |-> "dict"]
NoArgs ==
  [cmd |-> "none", cwd |-> RootDir, template_name |-> "ghost", project_name |-> None,
   pretty_name |-> None, collected_variables |-> None, allow_non_empty |-> FALSE,
   override |-> None, child |-> <<>>, target_dir |-> None, types |-> Annotated]
NoLoc ==
  [has_files |-> FALSE, git |-> "unread", snake_name |-> None, final_pretty_name |-> None,
   parent_dir |-> None, todo |-> {}, err |-> "none", current |-> RootDir, root_dir |-> None]

\* the interpolation context of a finished pull of template "hello" into TopDir
SeedCtx ==
  set_collected_variable(
    set_project_names(EmptyCtx, normalize_to_snake(Chars(TopName)),
                      snake_to_pretty(normalize_to_snake(Chars(TopName)))),
    "author", "Ada")
SeedData(c, t) ==
  [k \in Range(KeyOrder) |->
     CASE k = "template" -> t
       [] k = "name_snake" -> Val(c.names)[1]
       [] k = "name_pretty" -> Val(c.names)[2]
       [] OTHER -> get_collected_variables(c)]
SeedTree(c, t) == [f \in TemplateFiles(t) |-> Render(c, f)]
ExistingDir == TopDir \o <<"existing">>
ExistingCtx ==
  set_collected_variable(
    set_project_names(EmptyCtx, normalize_to_snake(Chars("existing")),
                      snake_to_pretty(normalize_to_snake(Chars("existing")))),
    "author", "Ada")

\* nothing pulled yet; the Finder has left a .DS_Store in every "childdir"
FreshManifest == [d \in Dirs \cup {TmpDir} |-> Absent]
FreshTree ==
  [d \in Dirs \cup {TmpDir} |->
     IF DirName(d) = "childdir" THEN [n \in {DSStore} |-> "finder"] ELSE <<>>]
\* TopDir was pulled from "hello", then "existing" was initialised under it:
\* the files pull_cmd in TopDir followed by init_cmd in "existing" leave behind
\* when started on the fresh tree (defaults accepted, author answered "Ada")
ParentManifest ==
  [FreshManifest EXCEPT
     ![TopDir] = add_child_to_parent(FileOf(SeedData(SeedCtx, "hello")), <<"existing">>),
     ![ExistingDir] = FileOf(SeedData(ExistingCtx, "hello"))]
ParentTree ==
  [FreshTree EXCEPT ![TopDir] = SeedTree(SeedCtx, "hello"),
                    ![ExistingDir] = SeedTree(ExistingCtx, "hello")]

InitFiles ==
  \/ manifest = FreshManifest /\ tree = FreshTree
  \/ manifest = ParentManifest /\ tree = ParentTree

Init ==
  /\ InitFiles
  /\ pc = "idle"
  /\ args = NoArgs
  /\ loc = NoLoc
  /\ ctx = EmptyCtx
  /\ prompts = <<>>
  /\ runs = 0
  /\ before = [manifest |-> manifest, tree |-> tree]

Ended == pc \in {"idle", "done", "error", "crashed"}

\* pull, up to the first prompt: the template and target checks
PullBegin(a, l) ==
  IF a.template_name \notin Templates
  THEN /\ pc' = "error"
       /\ loc' = [l EXCEPT !.err = "FileNotFoundError"]
  ELSE LET has_files == HasFiles(a.cwd)
       IN IF ~has_files
          THEN /\ pc' = "names"
               /\ loc' = [l EXCEPT !.has_files = FALSE]
          ELSE IF ~a.allow_non_empty
          THEN /\ pc' = "error"
               /\ loc' = [l EXCEPT !.has_files = TRUE, !.err = "FileExistsError"]
          ELSE \E g \in GitStates :
                 IF ~is_git_repo_clean(g)
                 THEN /\ pc' = "error"
                      /\ loc' = [l EXCEPT !.has_files = TRUE, !.git = g, !.err = "RuntimeError"]
                 ELSE /\ pc' = "names"
                      /\ loc' = [l EXCEPT !.has_files = TRUE, !.git = g]

\* a new process: fresh interpolation context, nothing prompted yet
NewProcess(a) ==
  /\ Ended
  /\ runs < MaxRuns
  /\ runs' = runs + 1
  /\ args' = a
  /\ ctx' = EmptyCtx
  /\ prompts' = <<>>
  /\ before' = [manifest |-> manifest, tree |-> tree]

\* pull_cmd: pull(template_name, allow_non_empty=True) in the current directory
PullCmd(d, t) ==
  LET a == [NoArgs EXCEPT !.cmd = "pull", !.cwd = d, !.template_name = t,
                          !.allow_non_empty = TRUE]
  IN /\ NewProcess(a)
     /\ PullBegin(a, NoLoc)
     /\ UNCHANGED <<manifest, tree>>

\* init_cmd -> init: the ancestor lookup, then pull(..., allow_non_empty=False)
InitArgs(d, t, o) ==
  [NoArgs EXCEPT !.cmd = "init", !.cwd = d, !.template_name = t, !.target_dir = Some(d),
                 !.project_name = o.name, !.pretty_name = o.pretty_name,
                 !.collected_variables = o.variables, !.allow_non_empty = FALSE]
\* (mutant) init registers the child as soon as the ancestor is found
InitCmd_RegistersFirst(d, t, o) ==
  LET parent_dir == find_parent_boilersync(d)
  IN /\ NewProcess(InitArgs(d, t, o))
     /\ PullBegin(InitArgs(d, t, o), [NoLoc EXCEPT !.parent_dir = parent_dir])
     /\ manifest' = IF ~IsNone(parent_dir) /\ Loadable(manifest[Val(parent_dir)])
                    THEN [manifest EXCEPT ![Val(parent_dir)] =
                            add_child_to_parent(@, RelPath(d, Val(parent_dir)))]
                    ELSE manifest
     /\ UNCHANGED tree
InitCmd(d, t, o) ==
  /\ NewProcess(InitArgs(d, t, o))
  /\ PullBegin(InitArgs(d, t, o), [NoLoc EXCEPT !.parent_dir = find_parent_boilersync(d)])
  /\ UNCHANGED <<manifest, tree>>

Fail(e) ==
  /\ pc' = "error"
  /\ loc' = [loc EXCEPT !.err = e]

\* set_collected_variables is handed something truthy that is no mapping
RestoreRaises ==
  /\ ~IsNone(args.collected_variables)
  /\ DOMAIN Val(args.collected_variables) # {}
  /\ args.types.collected_variables # "dict"
\* pull: the project names, set_project_names, the pre-collected variables
SeedContext(snake, pretty) ==
  LET c1 == set_project_names(ctx, snake, pretty)
  IN IF RestoreRaises THEN c1
     ELSE IF ~IsNone(args.collected_variables) /\ DOMAIN Val(args.collected_variables) # {}
     THEN set_collected_variables(c1, Val(args.collected_variables))
     ELSE c1

PullNames ==
  /\ pc = "names"
  /\ UNCHANGED <<manifest, tree, args, runs, before>>
  /\ IF ~IsNone(args.project_name) /\ ~IsNone(args.pretty_name)
     THEN /\ pc' = IF RestoreRaises THEN "error" ELSE "walk"
          /\ loc' = [loc EXCEPT !.snake_name = args.project_name,
                                !.final_pretty_name = args.pretty_name,
                                !.todo = TemplateFiles(args.template_name),
                                !.err = IF RestoreRaises THEN "TypeError" ELSE @]
          /\ ctx' = SeedContext(Val(args.project_name), Val(args.pretty_name))
          /\ prompts' = prompts
     ELSE LET default_snake_name == normalize_to_snake(Chars(DirName(args.cwd)))
              default_pretty_name == snake_to_pretty(default_snake_name)
          IN IF default_snake_name = <<>>
             THEN /\ Fail("InvalidNameError")
                  /\ UNCHANGED <<ctx, prompts>>
             ELSE \E a \in NameAnswers(default_snake_name, default_pretty_name) :
                    /\ pc' = IF RestoreRaises THEN "error" ELSE "walk"
                    /\ loc' = [loc EXCEPT !.snake_name = Some(a[1]),
                                          !.final_pretty_name = Some(a[2]),
                                          !.todo = TemplateFiles(args.template_name),
                                          !.err = IF RestoreRaises THEN "TypeError" ELSE @]
                    /\ ctx' = SeedContext(a[1], a[2])
                    /\ prompts' = prompts \o <<"name_snake", "name_pretty">>

\* the dictionary pull dumps into .boilersync
boilersync_data ==
  [k \in Range(KeyOrder) |->
     CASE k = "template" -> args.template_name
       [] k = "name_snake" -> Val(loc.snake_name)
       [] k = "name_pretty" -> Val(loc.final_pretty_name)
       [] OTHER -> get_collected_variables(ctx)]

\* process_template_directory, one file: collect what is missing, write it
WalkFile(f) ==
  /\ pc = "walk"
  /\ f \in loc.todo
  /\ \E ans \in [MissingVariables(ctx, FileTokens(f)) -> Values] :
       LET c2 == collect_missing_variables(ctx, FileTokens(f), ans)
       IN /\ ctx' = c2
          /\ tree' = [tree EXCEPT ![args.cwd] = WriteFile(@, f, Render(c2, f))]
  /\ prompts' = prompts \o Sorted(MissingVariables(ctx, FileTokens(f)))
  /\ loc' = [loc EXCEPT !.todo = @ \ {f}]
  /\ pc' = IF loc.todo = {f} THEN "save" ELSE "walk"
  /\ UNCHANGED <<manifest, args, runs, before>>

\* (mutant) the manifest is dumped in a finally block, also when the walk raised
WalkFail_SavesAnyway(f) ==
  /\ pc = "walk"
  /\ f \in loc.todo
  /\ prompts' = prompts
  /\ Fail("Abort")
  /\ manifest' = [manifest EXCEPT ![args.cwd] = FileOf(boilersync_data)]
  /\ UNCHANGED <<tree, args, ctx, runs, before>>
\* process_template_directory raises at file f after n of its prompts: the
\* exception leaves pull, nothing more is written
WalkFail(f) ==
  /\ pc = "walk"
  /\ f \in loc.todo
  /\ \E n \in 0..Cardinality(MissingVariables(ctx, FileTokens(f))) :
       prompts' = prompts \o SubSeq(Sorted(MissingVariables(ctx, FileTokens(f))), 1, n)
  /\ Fail("Abort")
  /\ UNCHANGED <<manifest, tree, args, ctx, runs, before>>

\* pull: open(.boilersync, "w") and json.dump
PullSave ==
  /\ pc = "save"
  /\ manifest' = [manifest EXCEPT ![args.cwd] = FileOf(boilersync_data)]
  /\ pc' = IF args.cmd \in {"init", "diff"} THEN "register" ELSE "done"
  /\ UNCHANGED <<tree, args, loc, ctx, prompts, runs, before>>

\* the process stops between open(.., "w") and the end of json.dump: the file
\* is left empty (nothing flushed yet) or cut off before its last key
PullSaveCrash ==
  /\ pc = "save"
  /\ \E n \in {0, Len(KeyOrder) - 1} :
       manifest' = [manifest EXCEPT ![args.cwd] = Truncated(boilersync_data, n)]
  /\ pc' = "crashed"
  /\ UNCHANGED <<tree, args, loc, ctx, prompts, runs, before>>

\* init: register under the ancestor found before the pull
InitRegister ==
  /\ pc = "register"
  /\ UNCHANGED <<tree, args, ctx, prompts, runs, before>>
  /\ IF IsNone(loc.parent_dir)
     THEN /\ pc' = "done"
          /\ UNCHANGED <<manifest, loc>>
     ELSE LET p == Val(loc.parent_dir)
          IN IF ~Loadable(manifest[p])
             THEN /\ Fail("JSONDecodeError")
                  /\ UNCHANGED manifest
             ELSE /\ manifest' = [manifest EXCEPT ![p] =
                                    add_child_to_parent(@, RelPath(args.cwd, p))]
                  /\ pc' = "done"
                  /\ UNCHANGED loc

\* paths.root_dir from the current directory d (BOILERSYNC_ROOT_DIR unset)
RECURSIVE root_dir(_)
root_dir(d) ==
  IF manifest[d].exists THEN Some(d)
  ELSE IF Parent(d) = d THEN None
  ELSE root_dir(Parent(d))

\* diff's call init(template_name, project_name, pretty_name, collected_variables):
\* the four values bound to init's parameters in the order of its signature
\* (template_name, target_dir, collected_variables, project_name, pretty_name)
DiffArgs(data) ==
  [NoArgs EXCEPT !.cmd = "diff", !.cwd = TmpDir, !.template_name = data.template,
                 !.target_dir = Some(data.name_snake),
                 !.collected_variables = Some(data.name_pretty),
                 !.project_name = Some(data.variables),
                 !.pretty_name = None,
                 !.allow_non_empty = FALSE,
                 !.types = [target_dir |-> "str", collected_variables |-> "str",
                            project_name |-> "dict", pretty_name |-> "str"]]

\* diff_cmd -> diff in directory d: read the manifest of the project root,
\* empty the temporary directory, chdir into it and run init there. The
\* ancestor lookup of init is handed a str: it raises or finds no ancestor.
DiffCmd(d) ==
  LET root == root_dir(d)
      failed == [NoArgs EXCEPT !.cmd = "diff", !.cwd = d]
  IN IF IsNone(root) \/ ~Loadable(manifest[Val(root)])
     THEN /\ NewProcess(failed)
          /\ pc' = "error"
          /\ loc' = [NoLoc EXCEPT !.root_dir = root, !.err = "FileNotFoundError"]
          /\ UNCHANGED <<manifest, tree>>
     ELSE LET a == DiffArgs(manifest[Val(root)].data)
          IN /\ NewProcess(a)
             /\ manifest' = [manifest EXCEPT ![TmpDir] = Absent]
             /\ tree' = [tree EXCEPT ![TmpDir] = <<>>]
             /\ \/ /\ pc' = "error"
                   /\ loc' = [NoLoc EXCEPT !.root_dir = root, !.err = "AttributeError"]
                \/ PullBegin(a, [NoLoc EXCEPT !.root_dir = root, !.parent_dir = None])

\* the option sets init_cmd is run with: --name, --pretty-name, --var
InitOptions ==
  {[name |-> None, pretty_name |-> None, variables |-> None],
   [name |-> Some(CustomSnake), pretty_name |-> None, variables |-> None],
   [name |-> Some(CustomSnake), pretty_name |-> Some(CustomPretty),
    variables |-> Some([k \in {"author"} |-> "Bob"])]}

Next ==
  \/ \E d \in Dirs, t \in TemplateNames : PullCmd(d, t)
  \/ \E d \in Dirs, t \in TemplateNames, o \in InitOptions : InitCmd(d, t, o)
  \/ \E d \in Dirs : DiffCmd(d)
  \/ PullNames
  \/ \E f \in loc.todo : WalkFile(f)
  \/ \E f \in loc.todo : WalkFail(f)
  \/ PullSave
  \/ PullSaveCrash
  \/ InitRegister

Spec == Init /\ [][Next]_vars

\* ------------------------------------------------- Paths: the upward search
\* a marker file, as any finished pull leaves it
Marker == FileOf(SeedData(SeedCtx, "hello"))
Overrides == {None} \cup {Some(d) : d \in SearchDirs}

\* any placement of marker files in the tree
SearchInit ==
  /\ manifest \in [SearchDirs -> {Absent, Marker}]
  /\ tree = FreshTree
  /\ pc = "idle"
  /\ args = NoArgs
  /\ loc = NoLoc
  /\ ctx = EmptyCtx
  /\ prompts = <<>>
  /\ runs = 0
  /\ before = [manifest |-> manifest, tree |-> tree]

\* Paths._get_root, up to the loop: BOILERSYNC_ROOT_DIR, else Path.cwd()
GetRootCall(d, ov) ==
  /\ pc \in {"idle", "returned", "notfound"}
  /\ args' = [NoArgs EXCEPT !.cmd = "root_dir", !.cwd = d, !.override = ov]
  /\ IF ~IsNone(ov)
     THEN /\ pc' = "returned"
          /\ loc' = [NoLoc EXCEPT !.root_dir = ov]
     ELSE /\ pc' = "search"
          /\ loc' = [NoLoc EXCEPT !.current = d]
  /\ UNCHANGED <<manifest, tree, ctx, prompts, runs, before>>

\* (mutant) the loop without its test for the filesystem root
GetRootStep_NoRootTest ==
  /\ pc = "search"
  /\ IF manifest[loc.current].exists
     THEN /\ pc' = "returned"
          /\ loc' = [loc EXCEPT !.root_dir = Some(loc.current)]
     ELSE /\ pc' = pc
          /\ loc' = [loc EXCEPT !.current = Parent(loc.current)]
  /\ UNCHANGED <<manifest, tree, args, ctx, prompts, runs, before>>
\* Paths._get_root, one turn of the while loop
GetRootStep ==
  /\ pc = "search"
  /\ IF manifest[loc.current].exists
     THEN /\ pc' = "returned"
          /\ loc' = [loc EXCEPT !.root_dir = Some(loc.current)]
     ELSE IF Parent(loc.current) = loc.current
     THEN /\ pc' = "notfound"
          /\ loc' = [loc EXCEPT !.err = "FileNotFoundError"]
     ELSE /\ pc' = pc
          /\ loc' = [loc EXCEPT !.current = Parent(loc.current)]
  /\ UNCHANGED <<manifest, tree, args, ctx, prompts, runs, before>>

SearchNext ==
  \/ \E d \in SearchDirs, ov \in Overrides : GetRootCall(d, ov)
  \/ GetRootStep

\* the loop is the only thing the process runs: it keeps taking turns
SearchSpec == SearchInit /\ [][SearchNext]_vars /\ WF_vars(GetRootStep)

\* ------------------------------------------- Paths: registering a child
\* Bound on the length of the children lists drawn.
MaxChildren == 2
\* the relative paths of a directory below one of its ancestors
ChildPaths ==
  UNION {{RelPath(d, p) : p \in {q \in SearchDirs : q # d /\ IsPrefix(q, d)}} : d \in SearchDirs}
ParentFile(L) ==
  IF L = <<>> THEN Marker
  ELSE FileOf([k \in DOMAIN Marker.data \cup {"children"} |->
                 IF k = "children" THEN L ELSE Marker.data[k]])

\* a parent manifest at TopDir with any children list, and a path to register
RegisterInit ==
  /\ \E L \in SeqsUpTo(ChildPaths, MaxChildren) :
       manifest = [FreshManifest EXCEPT ![TopDir] = ParentFile(L)]
  /\ tree = FreshTree
  /\ pc = "idle"
  /\ \E c \in ChildPaths : args = [NoArgs EXCEPT !.cmd = "register", !.cwd = TopDir, !.child = c]
  /\ loc = NoLoc
  /\ ctx = EmptyCtx
  /\ prompts = <<>>
  /\ runs = 0
  /\ before = [manifest |-> manifest, tree |-> tree]

\* paths.add_child_to_parent, called once and once more
RegisterChild ==
  /\ pc \in {"idle", "registered"}
  /\ manifest' = [manifest EXCEPT ![args.cwd] = add_child_to_parent(@, args.child)]
  /\ pc' = IF pc = "idle" THEN "registered" ELSE "registered twice"
  /\ UNCHANGED <<tree, args, loc, ctx, prompts, runs, before>>

RegisterNext == RegisterChild
RegisterSpec == RegisterInit /\ [][RegisterNext]_vars

\* ------------------------------------------------------------------ claims
BeforeFile == before.manifest[args.cwd]
Count(s, k) == Cardinality({i \in 1..Len(s) : s[i] = k})

\* C1: during a pull into a directory that already held a loadable manifest,
\* no variable of that manifest's `variables` is prompted for.
C1_NoRepromptOfPersisted ==
  (args.cmd \in {"pull", "init"} /\ Loadable(BeforeFile)) =>
    \A k \in DOMAIN BeforeFile.data.variables : k \notin Range(prompts)

\* C2: a re-pull neither prompts for the names nor changes them: the names in
\* the context and in the manifest written back are the persisted ones.
C2_NamesPassedThrough ==
  (args.cmd = "pull" /\ Loadable(BeforeFile)) =>
    /\ "name_snake" \notin Range(prompts)
    /\ "name_pretty" \notin Range(prompts)
    /\ ~IsNone(ctx.names) =>
         Val(ctx.names) = <<BeforeFile.data.name_snake, BeforeFile.data.name_pretty>>
    /\ Loadable(manifest[args.cwd]) =>
         /\ manifest[args.cwd].data.name_snake = BeforeFile.data.name_snake
         /\ manifest[args.cwd].data.name_pretty = BeforeFile.data.name_pretty

\* C3: no step between two loadable manifests of a directory removes a path
\* from its children list.
C3_ChildrenOnlyGrow ==
  [][\A d \in Dirs :
       (Loadable(manifest[d]) /\ Loadable(manifest'[d])) =>
         Range(ChildrenOf(manifest[d])) \subseteq Range(ChildrenOf(manifest'[d]))]_vars

\* C4: registering c under a manifest whose children are L leaves L followed by
\* c when c is not in L and L itself when it is, after one call and after two.
C4_RegisterChildSet ==
  pc \in {"registered", "registered twice"} =>
    LET L == ChildrenOf(BeforeFile)
        c == args.child
    IN ChildrenOf(manifest[args.cwd]) =
         IF \E i \in 1..Len(L) : L[i] = c THEN L ELSE L \o <<c>>
C4_Witness ==
  /\ pc = "registered twice"
  /\ ChildrenOf(BeforeFile) = << <<"existing">> >>
  /\ ChildrenOf(manifest[args.cwd]) = << <<"existing">>, <<"childdir">> >>

\* C5: unless the target was empty (ignoring .DS_Store) or pull was allowed
\* into a non-empty target whose git state is not dirty, the pull has raised
\* with the context untouched, nothing prompted and no file or manifest changed.
MayWrite ==
  \/ ~HasFilesIn(before.manifest, before.tree, args.cwd)
  \/ args.allow_non_empty /\ loc.git \in {"norepo", "clean"}
C5_PullGuards ==
  (args.cmd \in {"pull", "init"} /\ ~MayWrite) =>
    /\ pc = "error"
    /\ args.template_name \in Templates =>
         loc.err = IF args.allow_non_empty THEN "RuntimeError" ELSE "FileExistsError"
    /\ args.template_name \notin Templates => loc.err = "FileNotFoundError"
    /\ ctx = EmptyCtx
    /\ prompts = <<>>
    /\ manifest = before.manifest
    /\ tree = before.tree
C5_Witness ==
  /\ pc = "error"
  /\ loc.err = "RuntimeError"
  /\ loc.git = "dirty"
  /\ Loadable(BeforeFile)

\* C6: within one run no token is prompted for twice, and a token that has a
\* value in the context is not prompted for by any later step of the run.
C6_NoTokenPromptedTwice ==
  /\ [](\A k \in Tokens : Count(prompts, k) <= 1)
  /\ [][runs' = runs =>
          \A k \in DOMAIN ctx.variables : Count(prompts', k) = Count(prompts, k)]_vars
C6_Witness ==
  /\ pc = "save"
  /\ args.template_name = "hello"
  /\ Count(prompts, "author") = 1
  /\ {"README.md", "app.cfg"} \subseteq DOMAIN tree[args.cwd]

\* C7: after a crash during the save the marker file is the complete previous
\* manifest or the complete new one.
C7_SaveAtomic ==
  pc = "crashed" =>
    manifest[args.cwd] \in {BeforeFile, FileOf(boilersync_data)}

\* C9: the manifest is untouched until the walk has completed; a walk that
\* fails ends the pull with every manifest as before and with the files written
\* so far left in place.
C9_ManifestAfterWalk ==
  /\ []((pc \in {"names", "walk", "save"} \/ (pc = "error" /\ loc.err = "Abort"))
          => manifest = before.manifest)
  /\ [][(pc = "walk" /\ pc' = "error") => tree' = tree]_vars
C9_Witness ==
  /\ pc = "error"
  /\ loc.err = "Abort"
  /\ Loadable(BeforeFile)
  /\ tree[args.cwd] # before.tree[args.cwd]
  /\ manifest[args.cwd].data.template # args.template_name

\* the longest proper prefix of d that holds a marker in m, or None
NearestMarked(m, d) ==
  LET A == {p \in Dirs : p # d /\ IsPrefix(p, d) /\ m[p].exists}
  IN IF A = {} THEN None
     ELSE Some(CHOOSE p \in A : \A q \in A : Len(q) <= Len(p))

\* C10: init appends to a children list only in its last step, when its own
\* pull has written its own manifest; the parent is the one found before the
\* pull; and until then no other directory's manifest has changed.
C10_RegisterAfterPull ==
  /\ [](args.cmd = "init" =>
          /\ loc.parent_dir = NearestMarked(before.manifest, args.cwd)
          /\ pc # "done" =>
               \A p \in Dirs : p # args.cwd => manifest[p] = before.manifest[p])
  /\ [][\A p \in Dirs :
          Len(ChildrenOf(manifest'[p])) > Len(ChildrenOf(manifest[p])) =>
            /\ args.cmd = "init"
            /\ pc = "register"
            /\ loc.parent_dir = Some(p)
            /\ manifest[args.cwd] = FileOf(boilersync_data)
            /\ ChildrenOf(manifest'[p]) =
                 Append(ChildrenOf(manifest[p]), RelPath(args.cwd, p))]_vars
C10_Witness ==
  /\ pc = "done"
  /\ args.cmd = "init"
  /\ ~IsNone(loc.parent_dir)
  /\ ChildrenOf(manifest[TopDir]) = << <<"existing">>, <<"childdir">> >>
  /\ Loadable(manifest[args.cwd])

\* C8: the upward search ends, from every start directory; what it returns is
\* the nearest directory on the upward path holding the marker, and it ends
\* not-found exactly when no directory on the path holds it.
OnPath(p, d) == p \in SearchDirs /\ IsPrefix(p, d)
C8_SearchTerminates ==
  /\ (pc = "search") ~> (pc \in {"returned", "notfound"})
  /\ []((pc = "returned" /\ IsNone(args.override)) =>
          LET r == Val(loc.root_dir)
          IN /\ OnPath(r, args.cwd)
             /\ manifest[r].exists
             /\ \A q \in SearchDirs :
                  (OnPath(q, args.cwd) /\ Len(q) > Len(r)) => ~manifest[q].exists)
  /\ [](pc = "notfound" => \A q \in SearchDirs : OnPath(q, args.cwd) => ~manifest[q].exists)
C8_Witness ==
  /\ pc = "notfound"
  /\ Len(args.cwd) = MaxDepth
  /\ loc.current = RootDir

\* C11: the init that diff runs in the temporary directory receives the
\* template, name_snake as project name, name_pretty as pretty name and the
\* variables of the project root's manifest; it prompts for none of them, and
\* the manifest it leaves in the temporary directory agrees with the root's.
C11_DiffSeededFromManifest ==
  (args.cmd = "diff" /\ args.cwd = TmpDir) =>
    LET M == before.manifest[Val(loc.root_dir)].data
    IN /\ args.template_name = M.template
       /\ args.types.project_name = "str"
       /\ args.project_name = Some(M.name_snake)
       /\ ~IsNone(args.pretty_name)
       /\ args.pretty_name = Some(M.name_pretty)
       /\ args.types.collected_variables = "dict"
       /\ args.collected_variables = Some(M.variables)
       /\ \A k \in {"name_snake", "name_pretty"} \cup DOMAIN M.variables :
            k \notin Range(prompts)
       /\ pc = "done" =>
            /\ Loadable(manifest[TmpDir])
            /\ Restrict(manifest[TmpDir].data, Range(KeyOrder)) = Restrict(M, Range(KeyOrder))
====
